---- MODULE Spec2Model ----
(***************************************************************************)
(* Model of the social-media interaction simulator:                        *)
(*   - InteractionEnvironment (SimulateEnv/interaction_core.py): one post, *)
(*     a map of comments, the action log, the round counter and the        *)
(*     per-user action counts;                                             *)
(*   - UserBehaviorSimulator (SimulateEnv/user_behavior_simulator.py):     *)
(*     the concurrent decision phase of a round;                           *)
(*   - SimulationEngine (SimulateEnv/simulation_engine.py): sessions and   *)
(*     simulate_round.                                                     *)
(*                                                                         *)
(* Identifiers.  The post id is PostId (0).  Comment ids are uuid based in *)
(* the source and are taken to be unique: the n-th comment created gets    *)
(* the id n, so an id in 1..Len(comments) names an existing comment and    *)
(* any other id names none.  created_at is the logical creation time of a  *)
(* comment (datetime.now() is taken to be increasing).                     *)
(***************************************************************************)
EXTENDS Integers, Sequences, FiniteSets, TLC

\* ---------------------------------------------------------------- bounds
MaxActions == 3
MaxRounds == 1

Users == {"u1", "u2"}
PostId == 0
\* None / empty content, and the comment texts callers give
NoContent == ""
Contents == {"hi"}

\* ActionType (enum values)
LIKE_POST == "like_post"
COMMENT_POST == "comment_post"
LIKE_COMMENT == "like_comment"
COMMENT_COMMENT == "comment_comment"
ActionType == {LIKE_POST, COMMENT_POST, LIKE_COMMENT, COMMENT_COMMENT}

\* parent_comment_id = None
None == -1
\* action_id of a UserAction that has no id (the source's "")
NoId == 0

\* ------------------------------------------------------------ data types
\* UserAction(action_id, user_id, action_type, target_id, content,
\*            created_at, round_number).  A UserAction is a mutable object:
\* action_id is the id the object ends up with (every caller in the source
\* passes "" and __post_init__ draws one from uuid4, taken to be unique),
\* so two records with one action_id are one object.
UserAction(action_id, user_id, action_type, target_id, content, round_number) ==
    [action_id |-> action_id, user_id |-> user_id, action_type |-> action_type,
     target_id |-> target_id, content |-> content, round_number |-> round_number]

\* Comment dataclass; __post_init__ generates the id (here: the given fresh id)
Comment(comment_id, post_id, content, author_id, parent_comment_id) ==
    [comment_id |-> comment_id, post_id |-> post_id, content |-> content,
     author_id |-> author_id, parent_comment_id |-> parent_comment_id,
     created_at |-> comment_id, likes |-> 0, like_users |-> <<>>]

is_sub_comment(c) == c.parent_comment_id # None

\* InteractionEnvironment.__init__
NewEnvironment ==
    [post |-> [post_id |-> PostId, likes |-> 0, like_users |-> <<>>],
     comments |-> <<>>,
     actions |-> <<>>,
     current_round |-> 0,
     user_action_count |-> [u \in Users |-> 0]]

\* "x in list"
InList(x, l) == \E i \in DOMAIN l : l[i] = x

\* a helper's outcome: the environment it leaves, and whether it raised
Ok(e) == [raised |-> FALSE, env |-> e]
Raise(e) == [raised |-> TRUE, env |-> e]

\* ------------------------------------------- InteractionEnvironment ops
like_post_nocheck(e, user_id, post_id) ==
    IF post_id # e.post.post_id THEN Raise(e)
    ELSE Ok([e EXCEPT !.post.like_users = Append(@, user_id),
                      !.post.likes = @ + 1])

like_post(e, user_id, post_id) ==
    IF post_id # e.post.post_id THEN Raise(e)
    ELSE IF ~InList(user_id, e.post.like_users)
         THEN Ok([e EXCEPT !.post.like_users = Append(@, user_id),
                           !.post.likes = @ + 1])
         ELSE Ok(e)

comment_post_anytarget(e, user_id, post_id, content) ==
    Ok([e EXCEPT !.comments =
           Append(@, Comment(Len(@) + 1, post_id, content, user_id, None))])

comment_post(e, user_id, post_id, content) ==
    IF post_id # e.post.post_id THEN Raise(e)
    ELSE Ok([e EXCEPT !.comments =
                Append(@, Comment(Len(@) + 1, post_id, content, user_id, None))])

like_comment(e, user_id, comment_id) ==
    IF comment_id \notin DOMAIN e.comments THEN Raise(e)
    ELSE IF ~InList(user_id, e.comments[comment_id].like_users)
         THEN Ok([e EXCEPT !.comments[comment_id].like_users = Append(@, user_id),
                           !.comments[comment_id].likes = @ + 1])
         ELSE Ok(e)

comment_comment(e, user_id, parent_comment_id, content) ==
    IF parent_comment_id \notin DOMAIN e.comments THEN Raise(e)
    ELSE LET parent_comment == e.comments[parent_comment_id]
         IN  Ok([e EXCEPT !.comments =
                    Append(@, Comment(Len(@) + 1, parent_comment.post_id, content,
                                      user_id, parent_comment_id))])

\* the dispatch on action_type inside add_action's try block
Dispatch(e, action) ==
    CASE action.action_type = LIKE_POST ->
            like_post(e, action.user_id, action.target_id)
      [] action.action_type = COMMENT_POST ->
            comment_post(e, action.user_id, action.target_id, action.content)
      [] action.action_type = LIKE_COMMENT ->
            like_comment(e, action.user_id, action.target_id)
      [] action.action_type = COMMENT_COMMENT ->
            comment_comment(e, action.user_id, action.target_id, action.content)

\* "action.round_number = self.current_round": the write goes to the object,
\* so to every entry of the log that is this object
set_round_number(actions, action, current_round) ==
    [k \in DOMAIN actions |->
        IF actions[k].action_id = action.action_id
        THEN [actions[k] EXCEPT !.round_number = current_round]
        ELSE actions[k]]

add_action_nocount(e, action) ==
    LET r == Dispatch(e, action)
    IN  IF r.raised
        THEN [ret |-> FALSE, env |-> r.env]
        ELSE [ret |-> TRUE,
              env |-> [r.env EXCEPT
                  !.actions = Append(
                      set_round_number(@, action, r.env.current_round),
                      [action EXCEPT !.round_number = r.env.current_round])]]

\* add_action: [ret |-> the returned bool, env |-> the environment after]
add_action(e, action) ==
    LET r == Dispatch(e, action)
    IN  IF r.raised
        THEN [ret |-> FALSE, env |-> r.env]
        ELSE [ret |-> TRUE,
              env |-> [r.env EXCEPT
                  !.actions = Append(
                      set_round_number(@, action, r.env.current_round),
                      [action EXCEPT !.round_number = r.env.current_round]),
                  !.user_action_count[action.user_id] = @ + 1]]

start_new_round(e) == [e EXCEPT !.current_round = @ + 1]

\* list.sort(key=created_at) of a set of comments
RECURSIVE SortByCreatedAt(_)
SortByCreatedAt(S) ==
    IF S = {} THEN <<>>
    ELSE LET first == CHOOSE c \in S : \A d \in S : c.created_at <= d.created_at
         IN  <<first>> \o SortByCreatedAt(S \ {first})

Range(l) == {l[i] : i \in DOMAIN l}

\* the dict built for one comment of the snapshot
CommentView(c) ==
    [comment_id |-> c.comment_id, content |-> c.content,
     author_id |-> c.author_id, likes |-> c.likes, created_at |-> c.created_at]

\* get_environment_state: the returned dict
get_environment_state(e) ==
    LET primary_comments ==
            SortByCreatedAt({c \in Range(e.comments) : ~is_sub_comment(c)})
        sub_comments_by_parent(parent_id) ==
            SortByCreatedAt({c \in Range(e.comments) :
                               is_sub_comment(c) /\ c.parent_comment_id = parent_id})
        SubViews(l) == [i \in DOMAIN l |-> CommentView(l[i])]
    IN  [post |-> [post_id |-> e.post.post_id, likes |-> e.post.likes],
         primary_comments |->
            [i \in DOMAIN primary_comments |->
                [comment_id |-> primary_comments[i].comment_id,
                 content |-> primary_comments[i].content,
                 author_id |-> primary_comments[i].author_id,
                 likes |-> primary_comments[i].likes,
                 created_at |-> primary_comments[i].created_at,
                 sub_comments |->
                    SubViews(sub_comments_by_parent(primary_comments[i].comment_id))]],
         total_comments |-> Len(e.comments),
         total_actions |-> Len(e.actions),
         current_round |-> e.current_round,
         active_users |-> Cardinality({u \in Users : e.user_action_count[u] > 0})]

\* Objects of the engine that a returned snapshot refers to instead of
\* copying.  get_environment_state builds every dict and list afresh from
\* str and int values, so the snapshot refers to none.
snapshot_refs_post == {"post"}

snapshot_refs == {}

\* ------------------------------------------------- UserBehaviorSimulator
\* SimulationConfig.max_concurrent_requests: the size of the semaphore
max_concurrent_requests == 2

\* A Python value that is a UserAction or None: <<a>> or <<>>.
Some(a) == <<a>>
Nothing == <<>>

\* an id an oracle may invent: it names no comment, now or later
HallucinatedId == None - 1

\* a decision dict of the oracle: {"action": .., "target_id": .., "content": ..}
Decision(action, target_id, content) ==
    [action |-> action, target_id |-> target_id, content |-> content]

\* _create_user_action: Some(UserAction) or Nothing
create_user_action(user_id, action_decision, round_number, uuid) ==
    IF action_decision.action = "no_action" THEN Nothing
    ELSE IF action_decision.action \notin ActionType THEN Nothing
    ELSE IF action_decision.target_id = None THEN Nothing
    ELSE Some(UserAction(uuid, user_id, action_decision.action, action_decision.target_id,
                         action_decision.content, round_number))

\* the texts of generate_fallback_action
FallbackReply == "agree"
fallback_comments == {"interesting", "learned", "approve", "makes sense", "support"}

generate_fallback_action_anycomment(user_id, environment_state, round_number, uuid) ==
    LET post == environment_state.post
        primary == environment_state.primary_comments
        ids == {primary[k].comment_id : k \in DOMAIN primary}
               \cup UNION {{primary[k].sub_comments[j].comment_id :
                               j \in DOMAIN primary[k].sub_comments} :
                           k \in DOMAIN primary}
    IN  {UserAction(uuid, user_id, COMMENT_COMMENT, c, FallbackReply, round_number) :
            c \in ids}
        \cup
        {UserAction(uuid, user_id, COMMENT_POST, post.post_id, c, round_number) :
            c \in fallback_comments}
        \cup
        {UserAction(uuid, user_id, LIKE_COMMENT, c, NoContent, round_number) : c \in ids}
        \cup
        {UserAction(uuid, user_id, LIKE_POST, post.post_id, NoContent, round_number)}

\* generate_fallback_action: the UserActions it can return, over all
\* outcomes of its random draws
generate_fallback_action(user_id, environment_state, round_number, uuid) ==
    LET post == environment_state.post
        comments == environment_state.primary_comments
    IN  {UserAction(uuid, user_id, COMMENT_COMMENT, comments[k].comment_id,
                    FallbackReply, round_number) : k \in DOMAIN comments}
        \cup
        {UserAction(uuid, user_id, COMMENT_POST, post.post_id, c, round_number) :
            c \in fallback_comments}
        \cup
        {UserAction(uuid, user_id, LIKE_COMMENT, comments[k].comment_id,
                    NoContent, round_number) : k \in DOMAIN comments}
        \cup
        {UserAction(uuid, user_id, LIKE_POST, post.post_id, NoContent, round_number)}

\* What one oracle call can end with: a timeout (asyncio.TimeoutError; a
\* transport failure and a reply that is no JSON are handled the same way
\* and are not told apart here), or a decision.  Decisions name the post, a
\* comment id listed in the prompt, or an invented id.
OracleOutcomes(environment_state) ==
    LET ids == {environment_state.primary_comments[k].comment_id :
                    k \in DOMAIN environment_state.primary_comments}
    IN  {[kind |-> "timeout", decision |-> Decision("", None, NoContent)]}
        \cup
        {[kind |-> "decision", decision |-> d] :
            d \in {Decision("no_action", None, NoContent),
                    Decision(LIKE_POST, environment_state.post.post_id, NoContent),
                    Decision(COMMENT_POST, environment_state.post.post_id, "hi"),
                    Decision(LIKE_COMMENT, HallucinatedId, NoContent)}
                   \cup {Decision(LIKE_COMMENT, c, NoContent) : c \in ids}
                   \cup {Decision(COMMENT_COMMENT, c, "hi") : c \in ids}}

\* One simulate_user_behavior coroutine: not yet past the semaphore ("new"),
\* awaiting the oracle ("inflight") or finished ("done") with its result;
\* oracle tells how the oracle call ended ("" while there was none).
NewTask == [st |-> "new", oracle |-> "", result |-> Nothing]

\* asyncio.gather(*tasks): the results in the order of the tasks
gather_completion_order(tasks, order) == [k \in DOMAIN order |-> tasks[order[k]].result]

gather(tasks, order) == [k \in DOMAIN tasks |-> tasks[k].result]

\* simulate_multiple_users: the results that are UserActions, in order
RECURSIVE FilterActions(_)
FilterActions(results) ==
    IF results = <<>> THEN <<>>
    ELSE (IF Head(results) # Nothing THEN <<Head(results)[1]>> ELSE <<>>)
         \o FilterActions(Tail(results))

\* ------------------------------------------------------ SimulationEngine
\* simulate_round's loop "for action in actions: if add_action(action): ...".
\* add_action_calls counts the calls of add_action the loop makes.
RECURSIVE ApplyActions_retry(_, _, _)
ApplyActions_retry(e, actions, successful_actions) ==
    IF actions = <<>>
    THEN [env |-> e, successful_actions |-> successful_actions, add_action_calls |-> 0]
    ELSE LET r1 == add_action(e, Head(actions))
             r == IF r1.ret THEN r1 ELSE add_action(r1.env, Head(actions))
             rest == ApplyActions_retry(r.env, Tail(actions),
                         IF r.ret
                         THEN Append(successful_actions, r.env.actions[Len(r.env.actions)])
                         ELSE successful_actions)
         IN  [rest EXCEPT !.add_action_calls = @ + (IF r1.ret THEN 1 ELSE 2)]

RECURSIVE ApplyActions(_, _, _)
ApplyActions(e, actions, successful_actions) ==
    IF actions = <<>>
    THEN [env |-> e, successful_actions |-> successful_actions, add_action_calls |-> 0]
    ELSE LET r == add_action(e, Head(actions))
             rest == ApplyActions(r.env, Tail(actions),
                         IF r.ret
                         THEN Append(successful_actions, r.env.actions[Len(r.env.actions)])
                         ELSE successful_actions)
         IN  [rest EXCEPT !.add_action_calls = @ + 1]

\* DataStorage.save_round_actions: the actions whose rows are written to the
\* round's file (none, and no file, if the list is empty)
save_round_actions(actions, round_number) ==
    SelectSeq(actions, LAMBDA a : a.round_number = round_number)

\* ------------------------------------------------------ UserAgentManager
\* The global "config = SystemConfig()": the attributes a SystemConfig has.
config ==
    [debug |-> FALSE, log_level |-> "INFO", data_path |-> "./Data",
     output_path |-> "./outputs",
     model |-> [model_name |-> "gpt-3.5-turbo", max_tokens |-> 1000, timeout |-> 30],
     concurrency |-> [max_concurrent_users |-> 10, batch_size |-> 50,
                      method |-> "asyncio", semaphore_limit |-> 5],
     simulation |-> [max_rounds |-> 5, memory_length |-> 5],
     evaluation |-> [metrics_weights |-> {"engagement", "reach", "sentiment"}]]

\* reading obj.name raises AttributeError unless obj has the attribute
hasattr(obj, name) == name \in DOMAIN obj

min(a, b) == IF a <= b THEN a ELSE b

\* how a batch call ends: with the list it returns, or with an exception
Returned(actions) == [raised |-> FALSE, error |-> "", actions |-> actions]
Raised(error) == [raised |-> TRUE, error |-> error, actions |-> <<>>]

\* What the model call and the activity draw give for one user: an action to
\* take, "ignore", or "error" (the call or the parsing of its answer raised).
Decisions == {"like", "comment", "ignore", "error"}

\* UserAgent.decide_action (and the same code in sync_simulate_user): None on
\* "ignore" and on any exception, else a UserAction on the post.  The
\* action's random action_id and its timestamp are left out.
decide_action(decision) ==
    IF decision \in {"ignore", "error"} THEN Nothing
    ELSE Some([action_type |-> decision, target_id |-> PostId,
               content |-> IF decision = "comment" THEN "hi" ELSE ""])

\* simulate_single_user / sync_simulate_user: None for an unknown user
simulate_single_user(agents, user_id, decision) ==
    IF user_id \in agents THEN decide_action(decision) ELSE Nothing

\* the results of gather, in the order of user_ids; outcomes gives each
\* user's decision
batch_results(agents, user_ids, outcomes) ==
    [k \in DOMAIN user_ids |->
        simulate_single_user(agents, user_ids[k], outcomes[user_ids[k]])]

simulate_batch_actions(agents, user_ids, outcomes) ==
    IF ~hasattr(config, "user_simulation") THEN Raised("AttributeError")
    ELSE LET max_concurrent == config.user_simulation.max_concurrent_users
         IN  Returned(FilterActions(batch_results(agents, user_ids, outcomes)))

\* ThreadPoolExecutor(max_workers) raises ValueError unless max_workers > 0
simulate_batch_actions_with_futures(agents, user_ids, outcomes) ==
    IF ~hasattr(config, "user_simulation") THEN Raised("AttributeError")
    ELSE LET max_workers == min(config.user_simulation.max_concurrent_users,
                                Len(user_ids))
         IN  IF max_workers <= 0 THEN Raised("ValueError")
             ELSE Returned(FilterActions(batch_results(agents, user_ids, outcomes)))

\* the loop "for i in range(0, len(user_ids), chunk_size)" from index i on
\* (i counts from 1 here)
RECURSIVE chunked_from(_, _, _, _, _)
chunked_from(agents, user_ids, outcomes, i, chunk_size) ==
    IF i > Len(user_ids) THEN Returned(<<>>)
    ELSE LET to == min(i + chunk_size - 1, Len(user_ids))
             chunk_actions == simulate_batch_actions(agents, SubSeq(user_ids, i, to),
                                                     outcomes)
             rest == chunked_from(agents, user_ids, outcomes, i + chunk_size, chunk_size)
         IN  IF chunk_actions.raised THEN chunk_actions
             ELSE IF rest.raised THEN rest
             ELSE Returned(chunk_actions.actions \o rest.actions)

\* range() raises ValueError for a step of 0
simulate_batch_actions_chunked(agents, user_ids, outcomes) ==
    IF ~hasattr(config, "user_simulation") THEN Raised("AttributeError")
    ELSE LET max_concurrent == config.user_simulation.max_concurrent_users
             chunk_size == max_concurrent
         IN  IF chunk_size = 0 THEN Raised("ValueError")
             ELSE chunked_from(agents, user_ids, outcomes, 1, chunk_size)

\* EnvironmentManager.simulate_round's choice of the strategy
Strategies == {"asyncio", "futures", "chunked"}
batch_actions(concurrency_method, agents, user_ids, outcomes) ==
    CASE concurrency_method = "asyncio" ->
            simulate_batch_actions(agents, user_ids, outcomes)
      [] concurrency_method = "futures" ->
            simulate_batch_actions_with_futures(agents, user_ids, outcomes)
      [] concurrency_method = "chunked" ->
            simulate_batch_actions_chunked(agents, user_ids, outcomes)
      [] OTHER -> simulate_batch_actions(agents, user_ids, outcomes)

\* The manager before any call: no agents, no batch call made.
NoBatch ==
    [agents |-> {}, pc |-> "idle", strategy |-> "", user_ids |-> <<>>,
     outcomes |-> [u \in Users |-> "ignore"], error |-> "", actions |-> <<>>]

\* ----------------------------------------------------- EnvironmentManager
\* UserAgent's UserAction (user_agent.py): its action_id is made of the type,
\* the target and the timestamp, and names no user.
AgentUserAction(action_type, target_id, content, timestamp) ==
    [action_type |-> action_type, target_id |-> target_id, content |-> content,
     timestamp |-> timestamp,
     action_id |-> <<action_type, target_id, timestamp>>]

\* UserMemory.add_interaction; of an interaction, the action_id is kept
max_length == 5
add_interaction(interactions, interaction) ==
    LET appended == Append(interactions, interaction)
    IN  IF Len(appended) > max_length THEN Tail(appended) ELSE appended

\* what the model's answer and the activity draw give an agent in a round
AgentDecisions == Decisions \cup {"share"}

\* UserAgent.decide_action of an agent with the given memory, at the given
\* time: None on "ignore" and on an exception, else the action on the post,
\* which is recorded in the agent's memory.
agent_decide_action(interactions, decision, post_id, timestamp) ==
    IF decision \in {"ignore", "error"}
    THEN [action |-> Nothing, interactions |-> interactions]
    ELSE LET action == AgentUserAction(decision, post_id,
                           IF decision = "comment" THEN "hi" ELSE NoContent, timestamp)
         IN  [action |-> Some(action),
              interactions |-> add_interaction(interactions, action.action_id)]

\* user_manager.agents: for every user None (Nothing), or the agent, of which
\* memory.interactions is kept
NoAgents == [u \in Users |-> Nothing]

\* simulate_round's serial loop from position k on: the agents afterwards,
\* the actions collected and, for each, the user whose agent decided it
RECURSIVE serial_actions(_, _, _, _, _, _)
serial_actions(agents, participating_users, outcomes, post_id, now, k) ==
    IF k > Len(participating_users)
    THEN [agents |-> agents, actions |-> <<>>, deciders |-> <<>>]
    ELSE LET user_id == participating_users[k]
             agent == agents[user_id]
         IN  IF agent = Nothing
             THEN serial_actions(agents, participating_users, outcomes, post_id,
                                 now, k + 1)
             ELSE LET d == agent_decide_action(agent[1], outcomes[k], post_id, now[k])
                      rest == serial_actions(
                                  [agents EXCEPT ![user_id] = Some(d.interactions)],
                                  participating_users, outcomes, post_id, now, k + 1)
                  IN  IF d.action = Nothing THEN rest
                      ELSE [rest EXCEPT !.actions = <<d.action[1]>> \o @,
                                        !.deciders = <<user_id>> \o @]

\* EnvironmentState(round_number=0, post=post, ...); of the post its id
NewEnvironmentState(post_id) ==
    [round_number |-> 0, post_id |-> post_id, comments |-> <<>>, likes |-> <<>>,
     shares |-> <<>>, participants |-> <<>>]

get_engagement_stats(state) ==
    [total_comments |-> Len(state.comments),
     total_likes |-> Len(state.likes),
     total_shares |-> Len(state.shares),
     unique_participants |-> Cardinality(Range(state.participants))]

\* _process_user_action: the state after it.  The uuid ids of the records
\* and their timestamps are left out.
process_user_action(state, action, user_id) ==
    LET added ==
          CASE action.action_type = "like" ->
                 [state EXCEPT !.likes = Append(@,
                     [target_id |-> action.target_id, target_type |-> "post",
                      user_id |-> user_id])]
            [] action.action_type = "comment" ->
                 [state EXCEPT !.comments = Append(@,
                     [post_id |-> state.post_id,
                      parent_comment_id |-> IF action.target_id = state.post_id
                                            THEN None ELSE action.target_id,
                      user_id |-> user_id, content |-> action.content])]
            [] action.action_type = "share" ->
                 [state EXCEPT !.shares = Append(@,
                     [post_id |-> state.post_id, user_id |-> user_id,
                      share_content |-> action.content])]
            [] OTHER -> state
    IN  IF user_id \in Range(added.participants) THEN added
        ELSE [added EXCEPT !.participants = Append(@, user_id)]

\* the user simulate_round finds for an action: the first of
\* participating_users, from position k on, whose agent's last interaction
\* has the action's action_id; None ("") if there is none
RECURSIVE find_user_id(_, _, _, _)
find_user_id(agents, participating_users, action, k) ==
    IF k > Len(participating_users) THEN ""
    ELSE LET agent == agents[participating_users[k]]
         IN  IF /\ agent # Nothing
                /\ agent[1] # <<>>
                /\ agent[1][Len(agent[1])] = action.action_id
             THEN participating_users[k]
             ELSE find_user_id(agents, participating_users, action, k + 1)

\* simulate_round's loop "for action in actions" from position k on: the
\* state afterwards and, for each action, the user it was processed for
RECURSIVE process_actions(_, _, _, _, _)
process_actions(state, agents, participating_users, actions, k) ==
    IF k > Len(actions) THEN [state |-> state, applied |-> <<>>]
    ELSE LET user_id == find_user_id(agents, participating_users, actions[k], 1)
             next == IF user_id # "" THEN process_user_action(state, actions[k], user_id)
                     ELSE state
             rest == process_actions(next, agents, participating_users, actions, k + 1)
         IN  [rest EXCEPT !.applied = <<user_id>> \o @]

\* no simulate_round call made yet
NoRound ==
    [pc |-> "idle", error |-> "", participating_users |-> <<>>, actions |-> <<>>,
     deciders |-> <<>>, applied |-> <<>>, actions_taken |-> 0, records_added |-> 0]

\* EnvironmentManager(), with a config.environment.log_level for
\* _setup_logger to read: no state, an empty history, a UserAgentManager
\* without agents.  history holds references to the EnvironmentState object
\* appended (see HistoryEntry); recorded keeps, for each entry, the round
\* number and the engagement stats the object had when it was appended.
NewManager ==
    [current_state |-> Nothing, history |-> <<>>, recorded |-> <<>>,
     agents |-> NoAgents, round |-> NoRound]

\* ------------------------------------------------------------ DataStorage
\* current_session_id = None
NoSession == 0

\* A session directory: session_info.json (<<>> while there is none),
\* comments.csv and all_actions.csv as their rows (<<>>: no such file; a
\* file is never written without rows).  posts.csv, the time columns and the
\* fields of session_info.json that load_environment does not read are
\* left out.
NoFiles == [session_info |-> <<>>, comments |-> <<>>, all_actions |-> <<>>]

\* save_environment_state: the rows of comments.csv, from the snapshot
RECURSIVE comments_data(_)
comments_data(primary_comments) ==
    IF primary_comments = <<>> THEN <<>>
    ELSE LET comment == Head(primary_comments)
         IN  <<[comment_id |-> comment.comment_id, content |-> comment.content,
                author_id |-> comment.author_id, likes |-> comment.likes,
                parent_comment_id |-> None, is_sub_comment |-> FALSE]>>
             \o [j \in DOMAIN comment.sub_comments |->
                    [comment_id |-> comment.sub_comments[j].comment_id,
                     content |-> comment.sub_comments[j].content,
                     author_id |-> comment.sub_comments[j].author_id,
                     likes |-> comment.sub_comments[j].likes,
                     parent_comment_id |-> comment.comment_id,
                     is_sub_comment |-> TRUE]]
             \o comments_data(Tail(primary_comments))

\* save_user_actions: the rows of all_actions.csv, with the columns it
\* writes.  comment_id is target_id if that starts with "comment_", which no
\* id made by Comment.__post_init__ does ("<post_id>_comment_<hex>"), so the
\* column is empty.
actions_data(actions) ==
    [k \in DOMAIN actions |->
        [user_id |-> actions[k].user_id,
         action_type |-> actions[k].action_type,
         target_id |-> actions[k].target_id,
         content |-> actions[k].content,
         round_number |-> actions[k].round_number,
         comment_id |-> ""]]

\* save_environment: the session directory after the call.  A file whose
\* rows would be empty is not written and stays as it was.
save_environment(files, e, session_id) ==
    LET state == get_environment_state(e)
        comments == comments_data(state.primary_comments)
    IN  [session_info |-> <<[session_id |-> session_id,
                             post_id |-> e.post.post_id,
                             total_rounds |-> e.current_round,
                             total_actions |-> Len(e.actions),
                             total_comments |-> Len(e.comments)]>>,
         comments |-> IF comments # <<>> THEN comments ELSE files.comments,
         all_actions |-> IF e.actions # <<>> THEN actions_data(e.actions)
                         ELSE files.all_actions]

\* what load_environment ends with: an environment, None (<<>>), or an error
NotLoaded == [raised |-> FALSE, error |-> "", env |-> <<>>]
Loaded(e) == [raised |-> FALSE, error |-> "", env |-> <<e>>]
LoadRaised(error) == [raised |-> TRUE, error |-> error, env |-> <<>>]

\* The loop of load_environment over the rows of all_actions.csv, from row k
\* on: each row is made a UserAction, reading the columns action_id, user_id,
\* action_type, target_id, content and round_number, and passed to
\* add_action.  Reading a column the file does not have raises KeyError.
RECURSIVE load_actions(_, _, _)
load_actions(e, rows, k) ==
    IF k > Len(rows) THEN Loaded(e)
    ELSE IF ~hasattr(rows[k], "action_id") THEN LoadRaised("KeyError")
    ELSE load_actions(add_action(e, UserAction(rows[k].action_id, rows[k].user_id,
                                               rows[k].action_type, rows[k].target_id,
                                               rows[k].content,
                                               rows[k].round_number)).env,
                      rows, k + 1)

\* load_environment: None without session_info.json; else a new environment
\* with the saved post id and round counter, into which the saved actions
\* are replayed
load_environment(files) ==
    IF files.session_info = <<>> THEN NotLoaded
    ELSE LET env_info == files.session_info[1]
             e == [NewEnvironment EXCEPT !.post.post_id = env_info.post_id,
                                         !.current_round = env_info.total_rounds]
         IN  IF files.all_actions # <<>>
             THEN load_actions(e, files.all_actions, 1)
             ELSE Loaded(e)

\* ----------------------------------------------------------------- state
VARIABLES
    env,        \* the InteractionEnvironment
    last,       \* the last call made (see Call)
    snap,       \* <<s>>: the snapshot a caller holds (as mutated by it), or <<>>
    snapOrig,   \* <<s>>: that snapshot as it was returned, or <<>>
    session,    \* SimulationEngine: current_environment and current_session_id set
    inv,        \* the simulate_round invocations (coroutines), see Idle
    calls,      \* the number of simulate_user_behavior tasks created so far
    batch,      \* the UserAgentManager: its agents and its last batch call
    current_session_id, \* SimulationEngine.current_session_id (NoSession: None)
    exports,    \* DataStorage: the files of a session directory, and what the
                \* last load_environment gave
    manager     \* the EnvironmentManager, its agents and its last simulate_round

vars == <<env, last, snap, snapOrig, session, inv, calls, batch,
          current_session_id, exports, manager>>
engine == <<session, inv, calls>>

\* simulate_round coroutines that may be alive at once; a new call is "r1"
\* unless "r1" is still awaiting
Invocations == {"r1", "r2"}

\* A simulate_round invocation: where it is (idle, awaiting its gather,
\* returned, raised), its locals while it awaits, and what it ended with;
\* storage is how its save step went and round_actions what that step wrote
\* to the round's file; session_id is the session whose environment its
\* snapshot was taken from, applied_session_id the session whose environment
\* its actions were applied to and under whose id they were saved.
Idle ==
    [pc |-> "idle", round_number |-> 0, user_profiles |-> <<>>, env_state |-> <<>>,
     tasks |-> <<>>, order |-> <<>>, actions |-> <<>>, successful_actions |-> <<>>,
     add_action_calls |-> 0, error |-> "", storage |-> "", round_actions |-> <<>>,
     session_id |-> NoSession, applied_session_id |-> NoSession]

NoAction == UserAction(NoId, "", "", None, NoContent, 0)
\* what is kept of a call: its name, the kind and target of its UserAction
\* (an accepted UserAction is in the log in full), and the value it returned
Call(op, action, ret) ==
    [op |-> op, action_type |-> action.action_type,
     target_id |-> action.target_id, ret |-> ret]

\* The ids a caller may name in the environment e.  NoSuchId(e) names no
\* comment and is not the post id: it stands for every such id.
NoSuchId(e) == Len(e.comments) + 1
PostTargets(e) == {e.post.post_id, NoSuchId(e)}
CommentTargets(e) == DOMAIN e.comments \cup {e.post.post_id, NoSuchId(e)}

\* the id __post_init__ draws for a UserAction made in environment e: one
\* that no object of the log has
uuid4(e) == Len(e.actions) + 1

\* Who makes a call on target t: a call that names no target of its kind
\* is rejected whoever makes it, with the same effect, so one actor makes it.
Callers(targets, t) ==
    IF t \in targets THEN Users ELSE {CHOOSE u \in Users : TRUE}

\* The UserAction objects a caller passes to add_action: new ones (dataclass
\* default round_number = 1; content is given with the two comment kinds
\* only), or one it has passed before, which is then in the log.
ActionInputs(e) ==
    Range(e.actions)
    \cup
    UNION {{UserAction(uuid4(e), u, LIKE_POST, t, NoContent, 1) :
               u \in Callers({e.post.post_id}, t)} : t \in PostTargets(e)}
    \cup
    UNION {{UserAction(uuid4(e), u, COMMENT_POST, t, c, 1) :
               u \in Callers({e.post.post_id}, t), c \in Contents} :
           t \in PostTargets(e)}
    \cup
    UNION {{UserAction(uuid4(e), u, LIKE_COMMENT, t, NoContent, 1) :
               u \in Callers(DOMAIN e.comments, t)} : t \in CommentTargets(e)}
    \cup
    UNION {{UserAction(uuid4(e), u, COMMENT_COMMENT, t, c, 1) :
               u \in Callers(DOMAIN e.comments, t), c \in Contents} :
           t \in CommentTargets(e)}

Init ==
    /\ env = NewEnvironment
    /\ last = Call("init", NoAction, TRUE)
    /\ snap = <<>>
    /\ snapOrig = <<>>
    /\ session = FALSE
    /\ inv = [i \in Invocations |-> Idle]
    /\ calls = 0
    /\ batch = NoBatch
    /\ current_session_id = NoSession
    /\ exports = [files |-> NoFiles, loaded |-> NotLoaded]
    /\ manager = NewManager

\* The ValueError conditions of _like_post, _comment_post, _like_comment and
\* _comment_comment.  Such a call adds nothing to the log, so a full log
\* (MaxActions) does not keep it from being made.
TargetMissing(e, action) ==
    IF action.action_type \in {LIKE_POST, COMMENT_POST}
    THEN action.target_id # e.post.post_id
    ELSE action.target_id \notin DOMAIN e.comments

\* env.add_action(action), by any caller
AddAction(action) ==
    /\ Len(env.actions) < MaxActions \/ TargetMissing(env, action)
    /\ \E r \in {add_action(env, action)} :
        /\ Len(r.env.actions) <= MaxActions
        /\ env' = r.env
        /\ last' = Call("add_action", action, r.ret)
        /\ UNCHANGED <<snap, snapOrig, engine, batch, current_session_id, exports, manager>>

\* env.start_new_round()
StartNewRound ==
    /\ env.current_round < MaxRounds
    /\ env' = start_new_round(env)
    /\ last' = Call("start_new_round", NoAction, TRUE)
    /\ UNCHANGED <<snap, snapOrig, engine, batch, current_session_id, exports, manager>>

Next ==
    \/ \E action \in ActionInputs(env) : AddAction(action)
    \/ StartNewRound

\* Direct calls on one InteractionEnvironment.
Spec == Init /\ [][Next]_vars

\* ------------------------------------------------------ comment content
\* The comment texts a caller may pass: content is Optional[str], and
\* _create_user_action passes None for an empty text.
ContentInputs == Contents \cup {NoContent}

\* UserActions of the two comment kinds, with any of these texts
CommentInputs(e) ==
    {UserAction(uuid4(e), u, COMMENT_POST, e.post.post_id, c, 1) :
        u \in Users, c \in ContentInputs}
    \cup
    {UserAction(uuid4(e), u, COMMENT_COMMENT, t, c, 1) :
        u \in Users, t \in DOMAIN e.comments, c \in ContentInputs}

NextContent ==
    \/ \E action \in CommentInputs(env) : AddAction(action)
    \/ StartNewRound

\* Comments and replies added to one InteractionEnvironment, their text
\* given or not.
SpecContent == Init /\ [][NextContent]_vars

\* ------------------------------------------------------------- fallback
\* The fallback path of the demo: a snapshot is taken, generate_fallback_action
\* proposes an action for user_id from it, and add_action applies it.
GenerateFallbackAction(user_id) ==
    /\ Len(env.actions) < MaxActions
    /\ \E action \in generate_fallback_action(user_id, get_environment_state(env),
                                              env.current_round, uuid4(env)) :
          \E r \in {add_action(env, action)} :
              /\ env' = r.env
              /\ last' = Call("generate_fallback_action", action, r.ret)
    /\ UNCHANGED <<snap, snapOrig, engine, batch, current_session_id, exports, manager>>

NextFallback == \E user_id \in Users : GenerateFallbackAction(user_id)

\* An environment filled by the fallback generator alone.
SpecFallback == Init /\ [][NextFallback]_vars

\* --------------------------------------------------------- save and load
\* the session directory the calls below name
SessionDir == "s1"

\* storage.save_environment(env, session_id)
SaveEnvironment ==
    /\ exports' = [files |-> save_environment(exports.files, env, SessionDir),
                   loaded |-> NotLoaded]
    /\ UNCHANGED <<env, last, snap, snapOrig, engine, batch, current_session_id, manager>>

\* storage.load_environment(session_id)
LoadEnvironment ==
    /\ exports' = [exports EXCEPT !.loaded = load_environment(exports.files)]
    /\ UNCHANGED <<env, last, snap, snapOrig, engine, batch, current_session_id, manager>>

NextStorage ==
    \/ \E user_id \in Users : GenerateFallbackAction(user_id)
    \/ StartNewRound
    \/ SaveEnvironment
    \/ LoadEnvironment

\* An environment filled by accepted actions over rounds, saved and loaded.
SpecStorage == Init /\ [][NextStorage]_vars

\* ------------------------------------------------------------ snapshots
\* s = env.get_environment_state()
GetEnvironmentState ==
    /\ snap' = <<get_environment_state(env)>>
    /\ snapOrig' = snap'
    /\ UNCHANGED <<env, last, engine, batch, current_session_id, exports, manager>>

\* The holder of a snapshot writes into it: s['post']['likes'] += 1,
\* s['primary_comments'][0]['likes'] += 1 or s['primary_comments'].clear().
\* A write reaches the engine only through an object the snapshot shares
\* with it (snapshot_refs).
MutateSnapshot(what) ==
    /\ snap # <<>>
    /\ snap = snapOrig
    /\ UNCHANGED <<last, snapOrig, engine, batch, current_session_id, exports, manager>>
    /\ CASE what = "post_likes" ->
              /\ snap' = <<[snap[1] EXCEPT !.post.likes = @ + 1]>>
              /\ env' = IF "post" \in snapshot_refs
                         THEN [env EXCEPT !.post.likes = @ + 1] ELSE env
         [] what = "comment_likes" ->
              /\ snap[1].primary_comments # <<>>
              /\ snap' = <<[snap[1] EXCEPT !.primary_comments[1].likes = @ + 1]>>
              /\ env' = IF "comment" \in snapshot_refs
                         THEN [env EXCEPT
                                 !.comments[snap[1].primary_comments[1].comment_id].likes
                                     = @ + 1]
                         ELSE env
         [] what = "clear_comments" ->
              /\ snap[1].primary_comments # <<>>
              /\ snap' = <<[snap[1] EXCEPT !.primary_comments = <<>>]>>
              /\ env' = IF "comments" \in snapshot_refs
                         THEN [env EXCEPT !.comments = <<>>] ELSE env

\* An add_action or start_new_round between two snapshots: the holder's
\* snapshot is no longer "the previous call" and is dropped.
SnapAddAction(action) ==
    /\ Len(env.actions) < MaxActions \/ TargetMissing(env, action)
    /\ \E r \in {add_action(env, action)} :
        /\ Len(r.env.actions) <= MaxActions
        /\ env' = r.env
        /\ snap' = <<>>
        /\ snapOrig' = <<>>
        /\ UNCHANGED <<last, engine, batch, current_session_id, exports, manager>>

SnapStartNewRound ==
    /\ env.current_round < MaxRounds
    /\ env' = start_new_round(env)
    /\ snap' = <<>>
    /\ snapOrig' = <<>>
    /\ UNCHANGED <<last, engine, batch, current_session_id, exports, manager>>

NextSnapshot ==
    \/ \E action \in ActionInputs(env) : SnapAddAction(action)
    \/ SnapStartNewRound
    \/ GetEnvironmentState
    \/ \E what \in {"post_likes", "comment_likes", "clear_comments"} :
          MutateSnapshot(what)

\* Environment calls interleaved with snapshots taken and written to.
SpecSnapshot == Init /\ [][NextSnapshot]_vars

\* ------------------------------------------------------ simulate_round
MaxSimRounds == 2
MaxOracleCalls == 3

\* the user_profiles lists callers pass (by user_id)
ProfileLists == {<<>>, <<"u1">>, <<"u1", "u2">>}

\* the positions of the tasks of a round
TaskIds == UNION {DOMAIN l : l \in ProfileLists}

\* how the "save data" step ends: save_round_data is False ("off"), the files
\* are written ("saved"), or a write raises ("failed")
StorageOutcomes == {"off", "saved", "failed"}

\* oracle calls in flight = permits of simulator.semaphore taken
InFlight ==
    Cardinality({ik \in Invocations \X TaskIds :
                    /\ ik[2] \in DOMAIN inv[ik[1]].tasks
                    /\ inv[ik[1]].tasks[ik[2]].st = "inflight"})

\* A call that has returned or raised has handed its result to its caller:
\* its record is kept for one state and is Idle from the next step on.
Collected(invs) ==
    [i \in Invocations |->
        IF invs[i].pc \in {"returned", "raised"} THEN Idle ELSE invs[i]]

FreeSlot(i) ==
    /\ inv[i].pc # "awaiting"
    /\ i = "r1" \/ inv["r1"].pc = "awaiting"

\* the session id create_session makes: one not used before
NewSessionId(session_id) == session_id + 1

\* engine.create_session(post_content)
CreateSession ==
    /\ ~session
    /\ session' = TRUE
    /\ current_session_id' = NewSessionId(current_session_id)
    /\ env' = NewEnvironment
    /\ inv' = Collected(inv)
    /\ UNCHANGED <<last, snap, snapOrig, calls, batch, exports, manager>>

\* simulate_round without a session: raises ValueError at once
SimulateRoundNoSession(i) ==
    /\ ~session
    /\ FreeSlot(i)
    /\ inv' = [Collected(inv) EXCEPT
                  ![i] = [Idle EXCEPT !.pc = "raised", !.error = "no_session"]]
    /\ UNCHANGED <<env, last, snap, snapOrig, session, calls, batch, current_session_id, exports, manager>>

\* The part of simulate_round after the gather: filter the results, apply
\* the actions in turn, save, return.  It has no await: it runs in one step.
Conclude(i, e, call, storage) ==
    LET actions == FilterActions(gather(call.tasks, call.order))
        r == ApplyActions(e, actions, <<>>)
    IN  /\ env' = r.env
        /\ inv' = [Collected(inv) EXCEPT ![i] =
               [call EXCEPT !.pc = IF storage = "failed" THEN "raised" ELSE "returned",
                            !.error = IF storage = "failed" THEN "storage" ELSE "",
                            !.actions = actions,
                            !.successful_actions = r.successful_actions,
                            !.add_action_calls = r.add_action_calls,
                            !.storage = storage,
                            !.applied_session_id = current_session_id,
                            !.round_actions =
                                IF storage = "saved" /\ r.successful_actions # <<>>
                                THEN save_round_actions(r.successful_actions,
                                                        call.round_number)
                                ELSE <<>>]]

\* simulate_round(user_profiles) up to its await: start_new_round, take the
\* snapshot, create one simulate_user_behavior task per profile.  With no
\* profile the gather is done at once and the call runs to its end.
SimulateRoundBegin(i, user_profiles, storage) ==
    /\ session
    /\ FreeSlot(i)
    /\ env.current_round < MaxSimRounds
    /\ calls + Len(user_profiles) <= MaxOracleCalls
    /\ calls' = calls + Len(user_profiles)
    /\ LET e == start_new_round(env)
           call == [Idle EXCEPT !.pc = "awaiting",
                                !.round_number = e.current_round,
                                !.session_id = current_session_id,
                                !.user_profiles = user_profiles,
                                !.env_state = <<get_environment_state(e)>>,
                                !.tasks = [k \in DOMAIN user_profiles |-> NewTask]]
       IN  IF user_profiles = <<>>
           THEN Conclude(i, e, call, storage)
           ELSE /\ storage = "off"
                /\ env' = e
                /\ inv' = [Collected(inv) EXCEPT ![i] = call]
    /\ UNCHANGED <<last, snap, snapOrig, session, batch, current_session_id, exports, manager>>

\* simulate_user_behavior: random.random() > action_probability, return None
TaskSkip(i, k) ==
    /\ inv[i].pc = "awaiting"
    /\ k \in DOMAIN inv[i].tasks
    /\ inv[i].tasks[k].st = "new"
    /\ inv' = [Collected(inv) EXCEPT
                  ![i].tasks[k] = [st |-> "done", oracle |-> "", result |-> Nothing],
                          ![i].order = Append(@, k)]
    /\ UNCHANGED <<env, last, snap, snapOrig, session, calls, batch, current_session_id, exports, manager>>

TaskStart_nolimit(i, k) ==
    /\ inv[i].pc = "awaiting"
    /\ k \in DOMAIN inv[i].tasks
    /\ inv[i].tasks[k].st = "new"
    /\ inv' = [Collected(inv) EXCEPT ![i].tasks[k].st = "inflight"]
    /\ UNCHANGED <<env, last, snap, snapOrig, session, calls, batch, current_session_id, exports, manager>>

\* simulate_user_behavior: "async with self.semaphore" entered, oracle called
TaskStart(i, k) ==
    /\ inv[i].pc = "awaiting"
    /\ k \in DOMAIN inv[i].tasks
    /\ inv[i].tasks[k].st = "new"
    /\ InFlight < max_concurrent_requests
    /\ inv' = [Collected(inv) EXCEPT ![i].tasks[k].st = "inflight"]
    /\ UNCHANGED <<env, last, snap, snapOrig, session, calls, batch, current_session_id, exports, manager>>

\* the id __post_init__ draws for the UserAction of task k of the call of
\* round round_number: no other task gets it
task_uuid4(round_number, k) == round_number * Cardinality(TaskIds) + k

\* the oracle call ends with an outcome o; _get_ai_action_decision returns None
\* on a timeout or an error, else the decision, which _create_user_action
\* turns into the task's result; the semaphore is released
TaskComplete(i, k) ==
    /\ inv[i].pc = "awaiting"
    /\ k \in DOMAIN inv[i].tasks
    /\ inv[i].tasks[k].st = "inflight"
    /\ \E o \in OracleOutcomes(inv[i].env_state[1]) :
          LET result == IF o.kind = "decision"
                        THEN create_user_action(inv[i].user_profiles[k], o.decision,
                                                inv[i].round_number,
                                                task_uuid4(inv[i].round_number, k))
                        ELSE Nothing
          IN  inv' = [Collected(inv) EXCEPT
                   ![i].tasks[k] = [st |-> "done", oracle |-> o.kind, result |-> result],
                   ![i].order = Append(@, k)]
    /\ UNCHANGED <<env, last, snap, snapOrig, session, calls, batch, current_session_id, exports, manager>>

\* the gather is done: simulate_round resumes and runs to its end
SimulateRoundFinish(i, storage) ==
    /\ inv[i].pc = "awaiting"
    /\ \A k \in DOMAIN inv[i].tasks : inv[i].tasks[k].st = "done"
    /\ Conclude(i, env, inv[i], storage)
    /\ UNCHANGED <<last, snap, snapOrig, session, calls, batch, current_session_id, exports, manager>>

NextEngine ==
    \/ CreateSession
    \/ \E i \in Invocations : SimulateRoundNoSession(i)
    \/ \E i \in Invocations, user_profiles \in ProfileLists, storage \in StorageOutcomes :
          SimulateRoundBegin(i, user_profiles, storage)
    \/ \E i \in Invocations, k \in TaskIds : TaskSkip(i, k)
    \/ \E i \in Invocations, k \in TaskIds : TaskStart(i, k)
    \/ \E i \in Invocations, k \in TaskIds : TaskComplete(i, k)
    \/ \E i \in Invocations, storage \in StorageOutcomes : SimulateRoundFinish(i, storage)

\* A SimulationEngine whose simulate_round may be called again while an
\* earlier call awaits its decisions.
SpecEngine == Init /\ [][NextEngine]_vars

\* The scheduling the event loop and the oracle guarantee: a task that was
\* created runs (it skips, or gets the semaphore once a permit is free), a
\* call in flight ends (answer, error, or the request_timeout of wait_for),
\* and a simulate_round whose gather is done resumes.
FairEngine ==
    /\ \A i \in Invocations, k \in TaskIds :
          WF_vars(TaskSkip(i, k) \/ TaskStart(i, k))
    /\ \A i \in Invocations, k \in TaskIds : WF_vars(TaskComplete(i, k))
    /\ \A i \in Invocations :
          WF_vars(\E storage \in StorageOutcomes : SimulateRoundFinish(i, storage))

SpecEngineFair == SpecEngine /\ FairEngine

\* ------------------------------------------- sessions during a round
MaxSessions == 2

uuid_post_id_fixed(session_id) == PostId

\* The post id InteractionEnvironment.__init__ draws from uuid4 for the
\* environment of a new session, taken to be unique: the first session's is
\* PostId, and no later one is PostId, a comment id, None or HallucinatedId.
uuid_post_id(session_id) == PostId - 10 * (session_id - 1)

\* engine.create_session(post_content), at any time: the engine's
\* environment and session id are replaced
CreateNewSession ==
    /\ current_session_id < MaxSessions
    /\ session' = TRUE
    /\ current_session_id' = NewSessionId(current_session_id)
    /\ env' = [NewEnvironment EXCEPT
                  !.post.post_id = uuid_post_id(NewSessionId(current_session_id))]
    /\ inv' = Collected(inv)
    /\ UNCHANGED <<last, snap, snapOrig, calls, batch, exports, manager>>

\* The environments whose saved files a session directory may hold: the
\* session's environment as create_session saved it, or with one like.
SavedEnvironments(session_id) ==
    LET e == [NewEnvironment EXCEPT !.post.post_id = uuid_post_id(session_id)]
    IN  {e, add_action(start_new_round(e), UserAction(1, "u1", LIKE_POST,
                           uuid_post_id(session_id), NoContent, 1)).env}

\* engine.load_session(session_id), called while a simulate_round awaits its
\* decisions, for the directory of a session this engine created: the
\* engine's environment and session id are replaced by what load_environment
\* returns; if that raises, load_session raises and nothing is replaced.
LoadSession(session_id, saved) ==
    /\ \E i \in Invocations : inv[i].pc = "awaiting"
    /\ \E loaded \in {load_environment(save_environment(NoFiles, saved, session_id))} :
          IF loaded.raised \/ loaded.env = <<>>
          THEN UNCHANGED <<session, current_session_id, env>>
          ELSE /\ session' = TRUE
               /\ current_session_id' = session_id
               /\ env' = loaded.env[1]
    /\ inv' = Collected(inv)
    /\ UNCHANGED <<last, snap, snapOrig, calls, batch, exports, manager>>

NextSessions ==
    \/ CreateNewSession
    \/ \E session_id \in 1..current_session_id :
          \E saved \in SavedEnvironments(session_id) : LoadSession(session_id, saved)
    \/ \E user_profiles \in ProfileLists, storage \in StorageOutcomes :
          SimulateRoundBegin("r1", user_profiles, storage)
    \/ \E k \in TaskIds : TaskSkip("r1", k)
    \/ \E k \in TaskIds : TaskStart("r1", k)
    \/ \E k \in TaskIds : TaskComplete("r1", k)
    \/ \E storage \in StorageOutcomes : SimulateRoundFinish("r1", storage)

\* A SimulationEngine whose session may be replaced while a simulate_round
\* awaits its decisions.
SpecSessions == Init /\ [][NextSessions]_vars

\* ---------------------------------------- UserAgentManager's batch calls
MaxUserIds == 3
UserIdLists == UNION {[1..n -> Users] : n \in 0..MaxUserIds}

AddAgent(user_id) ==
    /\ batch' = [batch EXCEPT !.agents = @ \cup {user_id}]
    /\ UNCHANGED <<env, last, snap, snapOrig, session, inv, calls,
                 current_session_id, exports, manager>>

RemoveAgent(user_id) ==
    /\ batch' = [batch EXCEPT !.agents = @ \ {user_id}]
    /\ UNCHANGED <<env, last, snap, snapOrig, session, inv, calls,
                 current_session_id, exports, manager>>

\* One call of a batch strategy, from its first line to its return or raise.
SimulateBatch(strategy, user_ids, outcomes) ==
    /\ \E r \in {batch_actions(strategy, batch.agents, user_ids, outcomes)} :
          batch' = [batch EXCEPT !.pc = IF r.raised THEN "raised" ELSE "returned",
                                 !.strategy = strategy,
                                 !.user_ids = user_ids,
                                 !.outcomes = outcomes,
                                 !.error = r.error,
                                 !.actions = r.actions]
    /\ UNCHANGED <<env, last, snap, snapOrig, session, inv, calls,
                 current_session_id, exports, manager>>

NextBatch ==
    \/ \E user_id \in Users : AddAgent(user_id)
    \/ \E user_id \in Users : RemoveAgent(user_id)
    \/ \E strategy \in Strategies, user_ids \in UserIdLists :
          \E outcomes \in [Users -> Decisions] :
             SimulateBatch(strategy, user_ids, outcomes)

SpecBatch == Init /\ [][NextBatch]_vars

\* ------------------------------------------ EnvironmentManager's rounds
MaxManagerRounds == 2

\* the participating_users lists callers pass
ParticipantLists == {<<>>, <<"u1">>, <<"u1", "u2">>, <<"u1", "u1">>}

\* The readings datetime.now() may give the UserActions made in the
\* decisions of one round, one after the other, counted within the round:
\* the clock does not go back, and two readings may be equal.
Timestamps(participating_users) ==
    {f \in [DOMAIN participating_users -> DOMAIN participating_users] :
        \A j, k \in DOMAIN f : j <= k => f[j] <= f[k]}

\* what an entry of history refers to: the EnvironmentState object that
\* initialize_environment created, which is current_state
HistoryEntry(m, i) == m.current_state[1]

\* user_manager.add_agent(UserAgent(profile)): a new agent, its memory empty
ManagerAddAgent(user_id) ==
    /\ manager' = [manager EXCEPT !.agents[user_id] = Some(<<>>)]
    /\ UNCHANGED <<env, last, snap, snapOrig, session, inv, calls, batch,
                   current_session_id, exports>>

\* initialize_environment(post), called once
InitializeEnvironment ==
    /\ manager.current_state = Nothing
    /\ LET state == NewEnvironmentState(PostId)
       IN  manager' = [manager EXCEPT
               !.current_state = Some(state),
               !.history = Append(@, "current_state"),
               !.recorded = Append(@, [round_number |-> state.round_number,
                                       stats |-> get_engagement_stats(state)])]
    /\ UNCHANGED <<env, last, snap, snapOrig, session, inv, calls, batch,
                   current_session_id, exports>>

\* simulate_round before initialize_environment: raises ValueError
ManagerSimulateRoundNoState ==
    /\ manager.current_state = Nothing
    /\ manager' = [manager EXCEPT
           !.round = [NoRound EXCEPT !.pc = "raised", !.error = "ValueError"]]
    /\ UNCHANGED <<env, last, snap, snapOrig, session, inv, calls, batch,
                   current_session_id, exports>>

\* simulate_round(participating_users, concurrent=True, concurrency_method):
\* round_number is incremented, then the batch strategy is called, which
\* with the SystemConfig of settings.py raises on its first line (see
\* simulate_batch_actions); the exception leaves simulate_round.
ManagerSimulateRoundConcurrent(participating_users, concurrency_method) ==
    /\ manager.current_state # Nothing
    /\ manager.current_state[1].round_number < MaxManagerRounds
    /\ LET r == batch_actions(concurrency_method,
                              {u \in Users : manager.agents[u] # Nothing},
                              participating_users, [u \in Users |-> "ignore"])
       IN  /\ r.raised
           /\ manager' = [manager EXCEPT
                  !.current_state[1].round_number = @ + 1,
                  !.round = [NoRound EXCEPT
                                !.pc = "raised", !.error = r.error,
                                !.participating_users = participating_users]]
    /\ UNCHANGED <<env, last, snap, snapOrig, session, inv, calls, batch,
                   current_session_id, exports>>

\* simulate_round(participating_users, concurrent=False): the agents decide
\* one after the other, the actions are mapped to users and processed, the
\* summary is made and current_state is appended to history.
ManagerSimulateRound(participating_users, outcomes, now) ==
    /\ manager.current_state # Nothing
    /\ manager.current_state[1].round_number < MaxManagerRounds
    /\ LET state == [manager.current_state[1] EXCEPT !.round_number = @ + 1]
           \* readings of different rounds differ
           timestamp == [k \in DOMAIN now |-> <<state.round_number, now[k]>>]
           d == serial_actions(manager.agents, participating_users, outcomes,
                               state.post_id, timestamp, 1)
           p == process_actions(state, d.agents, participating_users, d.actions, 1)
           records(st) == Len(st.likes) + Len(st.comments) + Len(st.shares)
       IN  manager' = [manager EXCEPT
               !.current_state = Some(p.state),
               !.agents = d.agents,
               !.history = Append(@, "current_state"),
               !.recorded = Append(@, [round_number |-> p.state.round_number,
                                       stats |-> get_engagement_stats(p.state)]),
               !.round = [pc |-> "returned", error |-> "",
                          participating_users |-> participating_users,
                          actions |-> d.actions,
                          deciders |-> d.deciders,
                          applied |-> p.applied,
                          actions_taken |-> Len(d.actions),
                          records_added |-> records(p.state) - records(state)]]
    /\ UNCHANGED <<env, last, snap, snapOrig, session, inv, calls, batch,
                   current_session_id, exports>>

NextManager ==
    \/ \E user_id \in Users : ManagerAddAgent(user_id)
    \/ InitializeEnvironment
    \/ ManagerSimulateRoundNoState
    \/ \E participating_users \in ParticipantLists, concurrency_method \in Strategies :
          ManagerSimulateRoundConcurrent(participating_users, concurrency_method)
    \/ \E participating_users \in ParticipantLists :
          \E outcomes \in [DOMAIN participating_users -> AgentDecisions],
             now \in Timestamps(participating_users) :
             ManagerSimulateRound(participating_users, outcomes, now)

\* An EnvironmentManager: agents added, the environment initialized, rounds
\* simulated.
SpecManager == Init /\ [][NextManager]_vars

\* =============================================================== claims
IsLike(a) == a.action_type \in {LIKE_POST, LIKE_COMMENT}
NoDuplicates(l) == \A j, k \in DOMAIN l : l[j] = l[k] => j = k
Ended(call) == call.pc \in {"returned", "raised"} /\ call.error # "no_session"

\* C1: once add_action has accepted a like by an actor on a target, a later
\* like by that actor on that target is rejected and not logged: the action
\* log never holds two likes of one actor on one target.
C1_DuplicateLikeRejected ==
    ~ \E j, k \in DOMAIN env.actions :
          /\ j < k
          /\ IsLike(env.actions[j])
          /\ env.actions[k].action_type = env.actions[j].action_type
          /\ env.actions[k].user_id = env.actions[j].user_id
          /\ env.actions[k].target_id = env.actions[j].target_id

\* C2: for the post and for every comment, likes = len(like_users) and no
\* actor occurs twice in like_users, after any sequence of add_action calls
\* (so a second like of the same actor leaves the count as it was).
C2_LikesMatchLikeUsers ==
    /\ env.post.likes = Len(env.post.like_users)
    /\ NoDuplicates(env.post.like_users)
    /\ \A c \in DOMAIN env.comments :
          /\ env.comments[c].likes = Len(env.comments[c].like_users)
          /\ NoDuplicates(env.comments[c].like_users)

\* an actor's second like of the post was just processed; the post has 1 like
C2_Witness ==
    /\ last.op = "add_action"
    /\ \E j, k \in DOMAIN env.actions :
          /\ j < k
          /\ env.actions[j].action_type = LIKE_POST
          /\ env.actions[k].action_type = LIKE_POST
          /\ env.actions[j].user_id = env.actions[k].user_id
          /\ env.post.likes = 1

\* C3: a reply (COMMENT_COMMENT) whose target comment itself has a parent is
\* rejected: add_action returns False and no comment is created under it.
C3_ReplyToReplyRejected ==
    ( /\ last.op = "add_action"
      /\ last.action_type = COMMENT_COMMENT
      /\ last.target_id \in DOMAIN env.comments
      /\ env.comments[last.target_id].parent_comment_id # None )
    => ( /\ last.ret = FALSE
         /\ \A c \in DOMAIN env.comments :
               env.comments[c].parent_comment_id # last.target_id )

\* C4: every comment with a parent_comment_id has a parent that exists, is
\* on the same post and has no parent itself (depth at most two).
C4_TwoLevelDepth ==
    \A c \in DOMAIN env.comments :
        LET parent_id == env.comments[c].parent_comment_id
        IN  parent_id # None =>
              /\ parent_id \in DOMAIN env.comments
              /\ env.comments[parent_id].post_id = env.comments[c].post_id
              /\ env.comments[parent_id].parent_comment_id = None

\* C5: round barrier.  While a simulate_round call still has proposals
\* pending, no later round has been started and the log holds no action of
\* a later round; and every action a call got accepted carries the round
\* number of that call.
C5_RoundBarrier ==
    \A i \in Invocations :
        /\ inv[i].pc = "awaiting" =>
              /\ env.current_round = inv[i].round_number
              /\ \A k \in DOMAIN env.actions :
                    env.actions[k].round_number <= inv[i].round_number
        /\ Ended(inv[i]) =>
              \A k \in DOMAIN inv[i].successful_actions :
                  inv[i].successful_actions[k].round_number = inv[i].round_number

\* the results of a call's tasks that are UserActions, by position in the
\* participant list
RECURSIVE InSubmissionOrder(_, _)
InSubmissionOrder(tasks, k) ==
    IF k > Len(tasks) THEN <<>>
    ELSE (IF tasks[k].result = Nothing THEN <<>> ELSE <<tasks[k].result[1]>>)
         \o InSubmissionOrder(tasks, k + 1)

\* C6: whatever the order in which the decision calls complete, the step
\* that ends a simulate_round applies the proposals in the order of the
\* participant list: the proposals, the environment after the step and the
\* accepted actions are those of applying the tasks' results by position.
C6_SubmissionOrder ==
    [][ \A i \in Invocations :
          (inv[i].pc = "awaiting" /\ Ended(inv'[i])) =>
              LET proposals == InSubmissionOrder(inv[i].tasks, 1)
                  r == ApplyActions(env, proposals, <<>>)
              IN  /\ inv'[i].actions = proposals
                  /\ env' = r.env
                  /\ inv'[i].successful_actions = r.successful_actions ]_vars

\* a call has ended whose second task completed first, both with an action
C6_Witness ==
    \E i \in Invocations :
        /\ Ended(inv[i])
        /\ inv[i].order = <<2, 1>>
        /\ Len(inv[i].actions) = 2
        /\ inv[i].actions[1] # inv[i].actions[2]

\* C7: a simulate_round call (with a session) all of whose oracle calls
\* timed out or failed returns a result: it does not raise.
C7_TotalOutageReturns ==
    \A i \in Invocations :
        ( /\ Ended(inv[i])
          /\ inv[i].tasks # <<>>
          /\ \A k \in DOMAIN inv[i].tasks : inv[i].tasks[k].oracle = "timeout" )
        => inv[i].pc = "returned"

\* C8: for every actor whose oracle call failed or timed out, the proposals
\* applied hold an output of generate_fallback_action for that actor and
\* the call's snapshot.
C8_FallbackReplacesFailure ==
    \A i \in Invocations :
        Ended(inv[i]) =>
            \A k \in DOMAIN inv[i].tasks :
                inv[i].tasks[k].oracle = "timeout" =>
                    \E j \in DOMAIN inv[i].actions :
                        inv[i].actions[j] \in
                            generate_fallback_action(inv[i].user_profiles[k],
                                inv[i].env_state[1], inv[i].round_number,
                                inv[i].actions[j].action_id)

BadTarget(e, call) ==
    \/ /\ call.action_type \in {LIKE_POST, COMMENT_POST}
       /\ call.target_id # e.post.post_id
    \/ /\ call.action_type \in {LIKE_COMMENT, COMMENT_COMMENT}
       /\ call.target_id \notin DOMAIN e.comments

\* C10: add_action of a LIKE_POST/COMMENT_POST whose target is not the post
\* id, or of a LIKE_COMMENT/COMMENT_COMMENT whose target is no existing
\* comment, returns False and leaves the whole environment unchanged.
C10_BadTargetNoChange ==
    [][ (last'.op = "add_action" /\ BadTarget(env, last'))
            => (last'.ret = FALSE /\ env' = env) ]_vars

\* such a call was rejected in an environment that has comments and likes
C10_Witness ==
    /\ last.op = "add_action"
    /\ last.ret = FALSE
    /\ BadTarget(env, last)
    /\ env.comments # <<>>
    /\ env.post.likes > 0

\* C13: an add_action of a COMMENT_POST or COMMENT_COMMENT without content is
\* rejected and creates no comment: the call returns False, and no stored
\* comment has an empty content.
C13_EmptyContentRejected ==
    /\ \A c \in DOMAIN env.comments : env.comments[c].content # NoContent
    /\ \A k \in DOMAIN env.actions :
          env.actions[k].action_type \in {COMMENT_POST, COMMENT_COMMENT}
              => env.actions[k].content # NoContent

\* C14: an accepted add_action appends one entry to the log, tagged with
\* current_round as it is at the call, and adds one to the actor's count
\* and to no other; in every state user_action_count[a] is the number of
\* log entries by a (so the counts sum to the length of the log).
C14_LogMatchesCounts ==
    /\ [] (\A u \in Users :
              env.user_action_count[u] =
                  Cardinality({k \in DOMAIN env.actions : env.actions[k].user_id = u}))
    /\ [][ (last'.op = "add_action" /\ last'.ret) =>
              /\ Len(env'.actions) = Len(env.actions) + 1
              /\ LET a == env'.actions[Len(env'.actions)]
                 IN  /\ a.round_number = env.current_round
                     /\ a.action_type = last'.action_type
                     /\ a.target_id = last'.target_id
                     /\ env'.user_action_count =
                            [env.user_action_count EXCEPT ![a.user_id] = @ + 1] ]_vars

\* both actors have accepted actions, one of them two, in a started round
C14_Witness ==
    /\ last.op = "add_action"
    /\ last.ret
    /\ env.current_round > 0
    /\ env.user_action_count["u1"] = 2
    /\ env.user_action_count["u2"] = 1

\* C15: the round counter only moves forward, by start_new_round and one at
\* a time: a start_new_round adds exactly one to current_round, no other
\* call changes it, and the round_number values along the action log never
\* decrease.
C15_RoundsIncrease ==
    /\ [][ IF last'.op = "start_new_round"
           THEN env'.current_round = env.current_round + 1
           ELSE env'.current_round = env.current_round ]_vars
    /\ [] (\A j, k \in DOMAIN env.actions :
              j < k => env.actions[j].round_number <= env.actions[k].round_number)

\* C20: the action log and the comments only grow.  Across every step the
\* log before is a prefix of the log after, entry by entry, and every
\* comment there was is still there with its author, content and parent.
C20_AppendOnly ==
    [][ /\ Len(env'.actions) >= Len(env.actions)
        /\ \A k \in DOMAIN env.actions : env'.actions[k] = env.actions[k]
        /\ \A c \in DOMAIN env.comments :
              /\ c \in DOMAIN env'.comments
              /\ env'.comments[c].author_id = env.comments[c].author_id
              /\ env'.comments[c].content = env.comments[c].content
              /\ env'.comments[c].parent_comment_id =
                     env.comments[c].parent_comment_id ]_vars

\* C16: simulate_round without a session raises before any decision call
\* and changes nothing (no round is started), and that is the only way a
\* simulate_round ends by raising.
C16_OnlyNoSessionRaises ==
    /\ [] (\A i \in Invocations :
              inv[i].pc = "raised" => inv[i].error = "no_session")
    /\ [][ \A i \in Invocations :
              (inv'[i].pc = "raised" /\ inv'[i].error = "no_session"
                   /\ inv'[i] # inv[i])
              => (env' = env /\ calls' = calls /\ session' = session
                    /\ inv'[i].tasks = <<>>) ]_vars

\* C17: a simulate_round whose save step fails still returns its result,
\* with the persistence error reported, and the actions it got accepted
\* stay in the environment's log.
C17_SaveFailureReported ==
    \A i \in Invocations :
        (Ended(inv[i]) /\ inv[i].error = "storage") =>
            /\ inv[i].pc = "returned"
            /\ \A k \in DOMAIN inv[i].successful_actions :
                  InList(inv[i].successful_actions[k], env.actions)

\* C18: no retry within a round.  The step that ends a simulate_round calls
\* add_action once per proposal, the log grows by the accepted proposals
\* only, each once, and a rejected proposal is not in the log; while the
\* call awaits, a task that is done stays as it ended (its actor is not
\* asked again) and a call in flight does not start anew.
C18_NoRetry ==
    [][ \A i \in Invocations :
          /\ (inv[i].pc = "awaiting" /\ Ended(inv'[i])) =>
                /\ inv'[i].add_action_calls = Len(inv'[i].actions)
                /\ Len(inv'[i].actions) <= Len(inv[i].tasks)
                /\ Len(env'.actions) =
                       Len(env.actions) + Len(inv'[i].successful_actions)
                /\ \A j \in DOMAIN inv'[i].actions :
                      Cardinality({k \in DOMAIN env'.actions :
                          env'.actions[k].action_id = inv'[i].actions[j].action_id})
                      = Cardinality({k \in DOMAIN inv'[i].successful_actions :
                          inv'[i].successful_actions[k].action_id
                              = inv'[i].actions[j].action_id})
                /\ NoDuplicates(inv'[i].successful_actions)
          /\ (inv[i].pc = "awaiting" /\ inv'[i].pc = "awaiting") =>
                \A k \in DOMAIN inv[i].tasks :
                    /\ inv[i].tasks[k].st = "done" => inv'[i].tasks[k] = inv[i].tasks[k]
                    /\ inv[i].tasks[k].st = "inflight" => inv'[i].tasks[k].st # "new"
      ]_vars

\* a call has ended with two proposals: one accepted, one rejected, and the
\* oracle call of neither failed
C18_Witness ==
    \E i \in Invocations :
        /\ Ended(inv[i])
        /\ Len(inv[i].actions) = 2
        /\ Len(inv[i].successful_actions) = 1

\* C19: on every snapshot get_environment_state produces and for every
\* outcome of its random draws, generate_fallback_action returns an action
\* (there is one); a LIKE_POST/COMMENT_POST names the post, a
\* LIKE_COMMENT/COMMENT_COMMENT names an existing top-level comment (so
\* none when there is no comment), and the content is non-empty exactly
\* for the two comment kinds.
C19_FallbackValid ==
    \A user_id \in Users :
        LET outs == generate_fallback_action(user_id, get_environment_state(env),
                                             env.current_round, uuid4(env))
        IN  /\ outs # {}
            /\ \A a \in outs :
                  /\ a.user_id = user_id
                  /\ a.action_type \in ActionType
                  /\ a.action_type \in {LIKE_POST, COMMENT_POST}
                        => a.target_id = env.post.post_id
                  /\ a.action_type \in {LIKE_COMMENT, COMMENT_COMMENT}
                        => /\ a.target_id \in DOMAIN env.comments
                           /\ env.comments[a.target_id].parent_comment_id = None
                  /\ a.content # NoContent
                        <=> a.action_type \in {COMMENT_POST, COMMENT_COMMENT}

\* the generator has just liked a top-level comment that has a reply
C19_Witness ==
    /\ last.op = "generate_fallback_action"
    /\ last.action_type = LIKE_COMMENT
    /\ last.ret
    /\ \E c \in DOMAIN env.comments : env.comments[c].parent_comment_id = last.target_id

C12_StrategiesAgree ==
    batch.pc # "idle" =>
        LET a == simulate_batch_actions(batch.agents, batch.user_ids, batch.outcomes)
            f == simulate_batch_actions_with_futures(batch.agents, batch.user_ids,
                                                     batch.outcomes)
            c == simulate_batch_actions_chunked(batch.agents, batch.user_ids,
                                                batch.outcomes)
        IN  /\ batch.pc = "returned"
            /\ ~a.raised /\ ~f.raised /\ ~c.raised
            /\ a.actions = f.actions
            /\ f.actions = c.actions

\* C21: an actor takes at most one action per round: after any simulate_round
\* calls, the action log holds at most one action of a given actor tagged
\* with a given round_number.
C21_OneActionPerRound ==
    \A j, k \in DOMAIN env.actions :
        ( /\ env.actions[j].user_id = env.actions[k].user_id
          /\ env.actions[j].round_number = env.actions[k].round_number ) => j = k

\* C22: when a simulate_round that saves its data ends, the actions written
\* for its round are exactly the actions add_action accepted in this call,
\* also when another simulate_round overlaps it.
C22_RoundActionsSaved ==
    \A i \in Invocations :
        (inv[i].pc = "returned" /\ inv[i].storage = "saved") =>
            inv[i].round_actions = inv[i].successful_actions

\* C23: every proposal the engine rejects in a round is reported to the
\* caller of simulate_round: each proposal applied in the round is found in
\* what the call returns.  The call returns successful_actions and nothing
\* else, so a proposal is reported only as an accepted one.
C23_RejectedReported ==
    \A i \in Invocations :
        inv[i].pc = "returned" =>
            \A j \in DOMAIN inv[i].actions :
                \E k \in DOMAIN inv[i].successful_actions :
                    inv[i].successful_actions[k].action_id = inv[i].actions[j].action_id

\* C29: the snapshot of get_environment_state lists every stored comment
\* exactly once, as a primary comment or as a sub_comment under its parent,
\* so total_comments is the number of comments listed.
C29_SnapshotListsAllComments ==
    LET s == get_environment_state(env)
        primary == s.primary_comments
        listed == {<<k, 0>> : k \in DOMAIN primary}
                  \cup UNION {{<<k, j>> : j \in DOMAIN primary[k].sub_comments} :
                              k \in DOMAIN primary}
        id(p) == IF p[2] = 0 THEN primary[p[1]].comment_id
                 ELSE primary[p[1]].sub_comments[p[2]].comment_id
    IN  /\ \A c \in DOMAIN env.comments :
              Cardinality({p \in listed : id(p) = c}) = 1
        /\ s.total_comments = Cardinality(listed)

\* C30: load_environment after save_environment gives back the environment:
\* the same like count of the post, the same comments with the same parents,
\* a log of the same length with the same round_number on every action, and
\* the same current_round.
C30_SaveLoadRoundTrip ==
    ( /\ exports.files.session_info # <<>>
      /\ exports.files = save_environment(exports.files, env, SessionDir)
      /\ exports.loaded # NotLoaded )
    => /\ ~exports.loaded.raised
       /\ LET loaded == exports.loaded.env[1]
          IN  /\ loaded.post.likes = env.post.likes
              /\ Len(loaded.comments) = Len(env.comments)
              /\ \A c \in DOMAIN env.comments :
                    loaded.comments[c].parent_comment_id
                        = env.comments[c].parent_comment_id
              /\ Len(loaded.actions) = Len(env.actions)
              /\ \A k \in DOMAIN env.actions :
                    loaded.actions[k].round_number = env.actions[k].round_number
              /\ loaded.current_round = env.current_round

\* C26: the proposals of a simulate_round, decided from a snapshot of one
\* session's environment, end up in no other session's environment and are
\* saved under no other session's id, also when create_session is called
\* while the round awaits its decisions: a round that ends in another
\* session than it started in has no proposal accepted and none saved.
C26_SessionIsolation ==
    [][\A i \in Invocations :
          (Ended(inv'[i]) /\ inv'[i].applied_session_id # inv'[i].session_id) =>
              /\ inv'[i].successful_actions = <<>>
              /\ inv'[i].round_actions = <<>>
              /\ env' = env]_vars

\* a round with a proposal has ended, with saving, in another session than
\* the one it started in
C26_Witness ==
    \E i \in Invocations :
        /\ inv[i].pc = "returned"
        /\ inv[i].storage = "saved"
        /\ inv[i].applied_session_id # inv[i].session_id
        /\ inv[i].actions # <<>>

\* C25: every simulate_round that awaits its decisions eventually returns,
\* whatever the number of actors is relative to the concurrency limit, and
\* when it has returned none of its oracle calls holds a permit of the
\* semaphore.
C25_RoundReturns ==
    /\ \A i \in Invocations :
          (inv[i].pc = "awaiting") ~> (inv[i].pc = "returned")
    /\ [](\A i \in Invocations :
            Ended(inv[i]) =>
                \A k \in DOMAIN inv[i].tasks : inv[i].tasks[k].st = "done")

\* What holds of the decision phase: every simulate_round that awaits its
\* decisions ends, by returning or by raising the error of its save step,
\* with every one of its tasks done.
RoundEnds ==
    \A i \in Invocations :
        (inv[i].pc = "awaiting") ~>
            (Ended(inv[i]) /\ \A k \in DOMAIN inv[i].tasks :
                                  inv[i].tasks[k].st = "done")

====
